---- MODULE Spec2Model ----
(***************************************************************************)
(* Result view of the cutting-stock optimizer front-end: the colour        *)
(* registry (pieceColors), the per-sheet canvas draw (SingleSheetLayout),  *)
(* the request life cycle (App.handleOptimize) and the PDF export          *)
(* (CuttingLayout.handleDownloadPdf).                                      *)
(*                                                                         *)
(* Conventions.  A piece id is a sequence of tokens, each either the       *)
(* separator "-" or a string without "-"; "Pieza-1-2" is                   *)
(* <<"Pieza","-","1","-","2">>.  Lengths that the code computes by a       *)
(* division are kept exact as integer numerators over a denominator that   *)
(* the definition names.  React runs the passive effects of one commit     *)
(* children first, then the parent.                                        *)
(***************************************************************************)
EXTENDS Integers, Sequences, FiniteSets, TLC

VARIABLES
  result,       \* App state `result`: 0 is null, k > 0 is Results[k]
  isLoading,    \* App state `isLoading`
  error,        \* App state `error` ("" when none)
  fetching,     \* the handleOptimize calls suspended at `await fetch`
  requests,     \* the number of handleOptimize calls made so far
  shownFrom,    \* the call whose setResult(data) set `result` (0: none)
  pieceColors,  \* pieceColors.current: the Map base id -> colour
  setLog,       \* the pieceColors.current.set calls of the last rebuild
  canvases,     \* per mounted SingleSheetLayout: the calls made on its canvas
  dpr,          \* window.devicePixelRatio (0 stands for a falsy value)
  exportPc,     \* handleDownloadPdf: "idle", "capture" (at await html2canvas),
                \*   "saved" (returned after pdf.save), "failed" (rejected)
  exportMode,   \* result.global_metrics.material_type read by the call
  sheetElements,\* number of .single-sheet-container elements the call found
  idx,          \* position in sheetElements of the element being captured
  cw,           \* canvas.width of the captures of this call
  pdf,          \* the jsPDF document: a sequence of pages, each the sequence
                \*   of images added to it
  yPos,         \* the cursor yPos, as a numerator over cw
  saved,        \* pdf.save calls made by the call
  styleHeight,  \* whole-report variant: reportElement.style.height ("" unset)
  styleOverflow,\* whole-report variant: reportElement.style.overflow
  reportCalls,  \* whole-report variant: per handleDownloadPdf call, its
                \*   position and locals
  materialType, \* InputForm state `materialType`
  rollWidth,    \* InputForm state `rollWidth`
  pieces,       \* InputForm state `pieces`
  sent,         \* the onSubmit call made by the last InputForm handler
  timeArg,      \* the argument of a formatTime call
  timeText,     \* what the call returned (<<>> before it returns)
  slicePc,      \* page-slicing loop under observation: which one, or "saved"
  sliceH,       \* its imgHeight (numerator over sliceC)
  sliceC,       \* its canvas width
  heightLeft,   \* its local `heightLeft`
  position,     \* its local `position`
  sliceDoc      \* its document

appVars == <<result, isLoading, error, fetching, requests, shownFrom>>
viewVars == <<pieceColors, setLog, canvases, dpr>>
exportVars == <<exportPc, exportMode, sheetElements, idx, cw, pdf, yPos, saved>>
reportVars == <<styleHeight, styleOverflow, reportCalls>>
formVars == <<materialType, rollWidth, pieces, sent>>
fmtVars == <<timeArg, timeText>>
sliceVars == <<slicePc, sliceH, sliceC, heightLeft, position, sliceDoc>>

(***************************************************************************)
(* Bounds                                                                  *)
(***************************************************************************)
NumHues == 3

\* handleOptimize calls of one session
MaxRequests == 3

Hues == 0 .. (NumHues - 1)

(***************************************************************************)
(* Small helpers                                                           *)
(***************************************************************************)
Min(a, b) == IF a < b THEN a ELSE b
Max(a, b) == IF a > b THEN a ELSE b

RECURSIVE Flatten(_)
Flatten(ss) == IF ss = <<>> THEN <<>> ELSE Head(ss) \o Flatten(Tail(ss))

Range(s) == { s[i] : i \in DOMAIN s }

(***************************************************************************)
(* Piece ids                                                               *)
(***************************************************************************)
InstanceSuffix == <<"1", "2", "3">>

\* The optimizer's id of a placed piece: <type id>-<instanceIndex>, or the
\* bare type id (inst = 0) when the type has a single instance.
CompoundId(type, inst) ==
  IF inst = 0 THEN type ELSE type \o <<"-", InstanceSuffix[inst]>>

\* Index of the first "-" of id, or Len(id) + 1 when there is none.
RECURSIVE FirstDash(_, _)
FirstDash(id, i) ==
  IF i > Len(id) THEN i
  ELSE IF id[i] = "-" THEN i
  ELSE FirstDash(id, i + 1)

\* p.id.split('-')[0]
BaseIdFirstSegment(id) == SubSeq(id, 1, FirstDash(id, 1) - 1)

baseIdOf(id) == BaseIdFirstSegment(id)

(***************************************************************************)
(* Placement results the optimizer may return                              *)
(***************************************************************************)
TP1 == <<"P1">>
TP2 == <<"P2">>
TP3 == <<"P3">>
TPieza1 == <<"Pieza", "-", "1">>
TPieza2 == <<"Pieza", "-", "2">>

Piece(type, inst, x, y, w, h) ==
  [id |-> CompoundId(type, inst), type |-> type, inst |-> inst,
   x |-> x, y |-> y, width |-> w, height |-> h]

\* A sheet; its metrics carry no consumed_length_mm.
Sheet(ix, w, h, placed) ==
  [sheet_index |-> ix, sheet_dimensions |-> [width |-> w, height |-> h],
   placed_pieces |-> placed, metrics |-> [piece_count |-> Len(placed)]]

\* The sheet with metrics.consumed_length_mm, given in tenths of a mm.
WithConsumedLength(sheet, mm10) ==
  [sheet EXCEPT !.metrics = [piece_count |-> sheet.metrics.piece_count,
                             consumed_length_mm10 |-> mm10]]

\* A result in which every piece of the request was placed.
Result(material, sheets) ==
  LET n == Len(Flatten([i \in 1 .. Len(sheets) |-> sheets[i].placed_pieces]))
  IN [global_metrics |-> [material_type |-> material,
                          total_sheets_used |-> Len(sheets),
                          total_placed_pieces |-> n,
                          total_pieces |-> n],
      sheets |-> sheets]

\* The result of a request that had n more pieces than were placed.
WithUnplaced(res, n) == [res EXCEPT !.global_metrics.total_pieces = @ + n]

\* The result with the piece counts the optimizer reports.
WithCounts(res, placed, total) ==
  [res EXCEPT !.global_metrics.total_placed_pieces = placed,
              !.global_metrics.total_pieces = total]

\* The result with one more field of global_metrics: total_material_area_sqm,
\* waste_percentage, or estimated_time_seconds (in tenths of a second, under
\* the name estimated_time_seconds10).
WithGlobalMetric(res, field, value) ==
  [res EXCEPT !.global_metrics =
     [f \in (DOMAIN @) \cup {field} |-> IF f = field THEN value ELSE @[f]]]

\* The result with impossible_to_place_ids or unplaced_piece_ids.
WithIds(res, field, ids) ==
  [f \in (DOMAIN res) \cup {field} |-> IF f = field THEN ids ELSE res[f]]

\* The result without its sheets field.
WithoutSheets(res) == [f \in (DOMAIN res) \ {"sheets"} |-> res[f]]

TP7 == <<"P7">>
TP8 == <<"P8">>
TP9 == <<"P9">>

Results ==
  << WithIds(WithIds(
       WithGlobalMetric(WithGlobalMetric(WithGlobalMetric(WithUnplaced(
         Result("sheet", << Sheet(1, 100, 100, << Piece(TP1, 1, 0, 0, 50, 50),
                                                Piece(TP2, 0, 50, 0, 20, 50) >>),
                            Sheet(2, 100, 100, << Piece(TP1, 2, 0, 0, 50, 50),
                                                  Piece(TP3, 0, 50, 0, 31, 21) >>) >>), 3),
         "total_material_area_sqm", 2), "waste_percentage", 15),
         "estimated_time_seconds10", 36610),
       "impossible_to_place_ids", <<TP7>>), "unplaced_piece_ids", <<TP8, TP9>>),
     WithGlobalMetric(
       Result("sheet", << Sheet(1, 0, 80, << Piece(TP1, 0, 0, 0, 31, 21) >>) >>),
       "total_material_area_sqm", 1),
     WithIds(
       WithGlobalMetric(WithUnplaced(
         Result("sheet", << Sheet(1, 100, 100, << Piece(TPieza1, 1, 0, 0, 40, 30) >>),
                            Sheet(2, 100, 100, << Piece(TPieza2, 1, 0, 0, 31, 20),
                                                  Piece(TP2, 1, 40, 0, 30, 21) >>) >>), 2),
         "waste_percentage", 40),
       "unplaced_piece_ids", <<TP8, TP9>>),
     WithGlobalMetric(
       Result("roll",  << Sheet(1, 100, 1500, << Piece(TP2, 1, 0, 0, 50, 50),
                                                 Piece(TP2, 2, 0, 50, 30, 50) >>) >>),
       "estimated_time_seconds10", 595),
     WithIds(WithIds(
       WithGlobalMetric(WithGlobalMetric(WithUnplaced(
         Result("sheet", << Sheet(1, 100, 100, << Piece(TP1, 1, 0, 0, 50, 50) >>),
                            Sheet(2, 100, 100, << Piece(TP1, 2, 0, 0, 50, 50) >>),
                            Sheet(3, 100, 100, << Piece(TP2, 0, 10, 10, 80, 21) >>) >>), 1),
         "total_material_area_sqm", 3), "estimated_time_seconds10", 0),
       "impossible_to_place_ids", <<TP7>>), "unplaced_piece_ids", <<>>),
     WithCounts(Result("sheet", << >>), 8, 10),
     WithGlobalMetric(WithGlobalMetric(
       Result("roll",  << WithConsumedLength(
                            Sheet(1, 100, -1, << Piece(TP1, 0, 0, 0, 50, 50) >>),
                            12345) >>),
       "waste_percentage", 0), "estimated_time_seconds10", 72000),
     WithoutSheets(WithCounts(Result("roll", << >>), 0, 2)) >>

ResultIds == 1 .. Len(Results)

\* result && result.sheets
HasSheets(r) == r # 0 /\ "sheets" \in DOMAIN Results[r]

SheetsOf(r) == IF HasSheets(r) THEN Results[r].sheets ELSE <<>>

PlacedPieces(r) == Flatten([i \in 1 .. Len(SheetsOf(r)) |-> SheetsOf(r)[i].placed_pieces])

\* The Math.random() outcomes one rebuild for r may consume: at most one
\* generatePastelColor call per placed piece.
RandomDraws(r) == [1 .. Len(PlacedPieces(r)) -> Hues]

(***************************************************************************)
(* ColorRegistry: pieceColors and its rebuild                              *)
(***************************************************************************)
\* `hsl(${h}, 75%, 85%)` with h = Math.floor(Math.random() * 360)
generatePastelColor(h) == <<"hsl", h, 75, 85>>

Gray == <<"gray">>

EmptyMap == [k \in {} |-> Gray]

MapSet(m, k, v) == [x \in (DOMAIN m) \cup {k} |-> IF x = k THEN v ELSE m[x]]

\* (a variant without the fallback: Map.get gives undefined for a missing key)
colorOfWithoutFallback(map, b) == IF b \in DOMAIN map THEN map[b] ELSE <<"undefined">>

\* pieceColors.current.get(baseId) || 'gray'
colorOf(map, b) == IF b \in DOMAIN map THEN map[b] ELSE Gray

\* (a variant that sets the colour of every scanned piece)
ScanPieceNoHasCheck(st, p, rnd) ==
  LET b == baseIdOf(p.id)
      c == generatePastelColor(rnd[st.n + 1])
  IN [map |-> MapSet(st.map, b, c), n |-> st.n + 1,
      log |-> Append(st.log, [key |-> b, color |-> c])]

\* The body of the forEach over the placed pieces: set only when absent.
ScanPiece(st, p, rnd) ==
  LET b == baseIdOf(p.id)
      c == generatePastelColor(rnd[st.n + 1])
  IN IF b \in DOMAIN st.map
       THEN st
       ELSE [map |-> MapSet(st.map, b, c), n |-> st.n + 1,
             log |-> Append(st.log, [key |-> b, color |-> c])]

RECURSIVE ScanPieces(_, _, _)
ScanPieces(st, placed, rnd) ==
  IF placed = <<>> THEN st
  ELSE ScanPieces(ScanPiece(st, Head(placed), rnd), Tail(placed), rnd)

\* pieceColors.current.clear()
ClearedMap(map) == EmptyMap

\* The effect of CuttingLayout on [result]: clear, then scan sheet by sheet.
RebuildEffect(r, map, log, rnd) ==
  IF HasSheets(r)
    THEN ScanPieces([map |-> ClearedMap(map), n |-> 0, log |-> <<>>], PlacedPieces(r), rnd)
    ELSE [map |-> map, n |-> 0, log |-> log]

(***************************************************************************)
(* SheetRenderer: the draw effect of SingleSheetLayout                     *)
(***************************************************************************)
DevicePixelRatios == {0, 2}

\* Calls on the 2D context.  `piece` is the position of the placed piece the
\* call belongs to (0 for the sheet itself) and `baseId` the key it computed.
FillRect(style, x, y, w, h, piece, b) ==
  [op |-> "fillRect", style |-> style, x |-> x, y |-> y, w |-> w, h |-> h,
   piece |-> piece, baseId |-> b]

StrokeRect(style, lineWidth, x, y, w, h, piece) ==
  [op |-> "strokeRect", style |-> style, lineWidth |-> lineWidth,
   x |-> x, y |-> y, w |-> w, h |-> h, piece |-> piece]

\* fillText(text, x, y) under textAlign 'center', textBaseline 'middle';
\* x10, y10 and font10 are the coordinates and the font size in tenths.
FillText(style, text, x10, y10, font10, piece) ==
  [op |-> "fillText", style |-> style, text |-> text, x10 |-> x10, y10 |-> y10,
   font10 |-> font10, align |-> "center", baseline |-> "middle", piece |-> piece]

getTextColorForBackground == <<"black">>

\* Math.max(10, Math.min(p.width, p.height) / 5), in tenths
fontSize10(p) == Max(10 * 10, (10 * Min(p.width, p.height)) \div 5)

\* `${p.width}x${p.height}`
dimsText(p) == <<ToString(p.width), "x", ToString(p.height)>>

\* (a variant with the same threshold for both dimensions)
LabelledWhenTallerThan30(p) == p.width > 30 /\ p.height > 30

\* if (p.width > 30 && p.height > 20)
Labelled(p) == p.width > 30 /\ p.height > 20

\* The two fillText calls of a labelled piece.
LabelCalls(p, k) ==
  LET f == fontSize10(p)
      cx == 10 * p.x + (10 * p.width) \div 2
      cy == 10 * p.y + (10 * p.height) \div 2
  IN << FillText(getTextColorForBackground, baseIdOf(p.id), cx, cy - f \div 2, f, k),
        FillText(getTextColorForBackground, dimsText(p), cx, cy + f \div 2, f, k) >>

\* The body of placed_pieces.forEach for the k-th piece of the sheet.
PieceCalls(p, k, map) ==
  LET b == baseIdOf(p.id)
  IN << FillRect(colorOf(map, b), p.x, p.y, p.width, p.height, k, b),
        StrokeRect(<<"#333">>, 1, p.x, p.y, p.width, p.height, k) >>
     \o (IF Labelled(p) THEN LabelCalls(p, k) ELSE <<>>)

\* The draw effect on a fresh canvas: assigning canvas.width resets the bitmap
\* and the context, so the calls of a draw start from an empty list.  draws
\* counts the runs of the effect on the canvas.
DrawSheet(sheet, map, ratio) ==
  LET w == sheet.sheet_dimensions.width
      h == sheet.sheet_dimensions.height
      d == IF ratio = 0 THEN 1 ELSE ratio
      ps == sheet.placed_pieces
  IN [width |-> w * d, height |-> h * d, scale |-> d, draws |-> 1,
      calls |-> << FillRect(<<"#fff">>, 0, 0, w, h, 0, <<>>),
                   StrokeRect(<<"#e5e7eb">>, 2, 0, 0, w, h, 0) >>
                \o Flatten([k \in 1 .. Len(ps) |-> PieceCalls(ps[k], k, map)])]

\* (a variant in which assigning the size keeps the bitmap and the transform)
SetSizeKeepingSurface(canvas, w, h) == [canvas EXCEPT !.width = w, !.height = h]

\* canvas.width = ...; canvas.height = ...: the bitmap is cleared and the
\* context state, its transform included, is reset.
SetSize(canvas, w, h) ==
  [canvas EXCEPT !.width = w, !.height = h, !.scale = 1, !.calls = <<>>]

\* ctx.scale(dpr, dpr) multiplies the current transform.
ctxScale(canvas, d) == [canvas EXCEPT !.scale = @ * d]

\* The draw effect run again on the canvas the component already holds.
DrawAgain(canvas, sheet, map, ratio) ==
  LET d == IF ratio = 0 THEN 1 ELSE ratio
      sized == SetSize(canvas, sheet.sheet_dimensions.width * d,
                               sheet.sheet_dimensions.height * d)
      scaled == ctxScale(sized, d)
  IN [scaled EXCEPT !.calls = @ \o DrawSheet(sheet, map, ratio).calls,
                    !.draws = canvas.draws + 1]

(***************************************************************************)
(* One commit of a new `result`: the passive effects run children first    *)
(* (each SingleSheetLayout draws, in sheet order), then the parent         *)
(* (CuttingLayout rebuilds pieceColors).                                   *)
(***************************************************************************)
\* (a variant in which the registry is rebuilt after the first sheet is drawn)
CommitEffectsRecolouringPerSheet(r, map, log, rnd, ratio) ==
  LET rebuilt == RebuildEffect(r, map, log, rnd)
  IN [canvases |-> [i \in 1 .. Len(SheetsOf(r)) |->
                      DrawSheet(SheetsOf(r)[i],
                                IF i = 1 THEN map ELSE rebuilt.map, ratio)],
      map |-> rebuilt.map, log |-> rebuilt.log]

CommitEffects(r, map, log, rnd, ratio) ==
  LET drawn == [i \in 1 .. Len(SheetsOf(r)) |-> DrawSheet(SheetsOf(r)[i], map, ratio)]
      rebuilt == RebuildEffect(r, map, log, rnd)
  IN [canvases |-> drawn, map |-> rebuilt.map, log |-> rebuilt.log]

(***************************************************************************)
(* App.handleOptimize                                                      *)
(***************************************************************************)
ErrorMessage == "Error al conectar con la API. Por favor, revisa la consola."

\* (a variant whose submit button stays enabled while isLoading)
SubmitWhileLoading ==
  /\ requests < MaxRequests
  /\ requests' = requests + 1
  /\ isLoading' = TRUE
  /\ error' = ""
  /\ result' = 0
  /\ shownFrom' = 0
  /\ fetching' = fetching \cup {requests + 1}
  /\ LET c == CommitEffects(0, pieceColors, setLog, <<>>, dpr)
     IN /\ canvases' = c.canvases
        /\ pieceColors' = c.map
        /\ setLog' = c.log
  /\ UNCHANGED <<dpr, exportVars, reportVars, formVars, fmtVars, sliceVars>>

\* (a variant without setResult(null): the earlier result stays mounted)
SubmitKeepingResult ==
  /\ ~isLoading
  /\ requests < MaxRequests
  /\ requests' = requests + 1
  /\ isLoading' = TRUE
  /\ error' = ""
  /\ fetching' = fetching \cup {requests + 1}
  /\ UNCHANGED <<result, shownFrom, viewVars, exportVars, reportVars, formVars, fmtVars, sliceVars>>

\* The submit button is disabled while isLoading.  Up to `await fetch`:
\* setIsLoading(true); setError(''); setResult(null).  The commit unmounts
\* every SingleSheetLayout; the rebuild effect sees a null result.
Submit ==
  /\ ~isLoading
  /\ requests < MaxRequests
  /\ requests' = requests + 1
  /\ isLoading' = TRUE
  /\ error' = ""
  /\ result' = 0
  /\ shownFrom' = 0
  /\ fetching' = fetching \cup {requests + 1}
  /\ LET c == CommitEffects(0, pieceColors, setLog, <<>>, dpr)
     IN /\ canvases' = c.canvases
        /\ pieceColors' = c.map
        /\ setLog' = c.log
  /\ UNCHANGED <<dpr, exportVars, reportVars, formVars, fmtVars, sliceVars>>

\* The response is OK and its body parses: setResult(data), then the
\* finally block's setIsLoading(false); one commit.
FetchOk ==
  /\ \E k \in fetching :
       /\ fetching' = fetching \ {k}
       /\ shownFrom' = k
  /\ \E r \in ResultIds : \E rnd \in RandomDraws(r) :
       /\ result' = r
       /\ LET c == CommitEffects(r, pieceColors, setLog, rnd, dpr)
          IN /\ canvases' = c.canvases
             /\ pieceColors' = c.map
             /\ setLog' = c.log
  /\ isLoading' = FALSE
  /\ UNCHANGED <<error, requests, dpr, exportVars, reportVars, formVars, fmtVars, sliceVars>>

\* (a variant without the finally block)
FetchFailWithoutFinally ==
  /\ \E k \in fetching : fetching' = fetching \ {k}
  /\ error' = ErrorMessage
  /\ UNCHANGED <<result, isLoading, requests, shownFrom, viewVars, exportVars, reportVars, formVars, fmtVars, sliceVars>>

\* fetch rejects, the response is not OK, or the body does not parse:
\* the catch block's setError, then setIsLoading(false).
FetchFail ==
  /\ \E k \in fetching : fetching' = fetching \ {k}
  /\ error' = ErrorMessage
  /\ isLoading' = FALSE
  /\ UNCHANGED <<result, requests, shownFrom, viewVars, exportVars, reportVars, formVars, fmtVars, sliceVars>>

(***************************************************************************)
(* ResultView: what CuttingLayout's render puts on the page                *)
(***************************************************************************)
\* {isLoading && <div className="glass-pane-overlay">}
LoadingShown == isLoading

\* {error && <p className="error-message">}
ErrorShown == error # ""

\* {!isLoading && !error && !result && <p className="placeholder-text">}
PlaceholderShown == ~isLoading /\ error = "" /\ result = 0

\* {metrics && <div className="results-summary">}; every result of the
\* optimizer carries global_metrics
SummaryShown == result # 0

\* {result && result.sheets && result.sheets.length > 0 && <button>}
ExportOffered == result # 0 /\ Len(SheetsOf(result)) > 0

\* {result?.sheets?.map(sheetData => <SingleSheetLayout key=...>)}
SheetsShown == IF result = 0 THEN 0 ELSE Len(SheetsOf(result))

(***************************************************************************)
(* MetricsProjector: the metrics grid of the summary.  A text is a         *)
(* sequence of tokens; a number given in tenths carries the suffix 10.     *)
(***************************************************************************)
\* Number.prototype.toFixed(0): the sign, then the nearest integer to the
\* magnitude, the larger one of two equally near.
toFixed0(x10) ==
  LET a == IF x10 < 0 THEN 0 - x10 ELSE x10
      n == (a + 5) \div 10
  IN IF x10 < 0 THEN <<"-", ToString(n)>> ELSE <<ToString(n)>>

MetricCard(title, value, className) ==
  [title |-> title, value |-> value, className |-> className]

\* title "Láminas Usadas", value {metrics.total_sheets_used}
SheetsUsedCard(r) ==
  MetricCard("Laminas Usadas",
             <<ToString(Results[r].global_metrics.total_sheets_used)>>, "")

\* result.sheets?.[0]?.sheet_dimensions?.height ?? 0, in tenths
FirstSheetHeight10(r) ==
  IF Len(SheetsOf(r)) > 0 THEN 10 * SheetsOf(r)[1].sheet_dimensions.height ELSE 0

\* `${(...).toFixed(0)} mm`
ConsumedLengthCard(r) ==
  MetricCard("Largo Consumido", toFixed0(FirstSheetHeight10(r)) \o <<" mm">>, "")

\* (a variant that flags the count unless more pieces were placed than asked)
PlacedClassAtMost(placed, total) == IF placed <= total THEN "danger" ELSE "success"

\* className={metrics.total_placed_pieces < metrics.total_pieces ? 'danger' : 'success'}
PlacedClass(placed, total) == IF placed < total THEN "danger" ELSE "success"

\* `${metrics.total_placed_pieces} / ${metrics.total_pieces}`
PlacedCard(r) ==
  LET m == Results[r].global_metrics
  IN MetricCard("Piezas Colocadas",
                <<ToString(m.total_placed_pieces), " / ", ToString(m.total_pieces)>>,
                PlacedClass(m.total_placed_pieces, m.total_pieces))

\* An argument of formatTime: a number of seconds in tenths, or undefined.
Num(x10) == [defined |-> TRUE, x10 |-> x10]
Undefined == [defined |-> FALSE, x10 |-> 0]

\* String.prototype.trim on a text whose only white space is the token " ".
RECURSIVE TrimStart(_)
TrimStart(t) == IF t # <<>> /\ Head(t) = " " THEN TrimStart(Tail(t)) ELSE t

RECURSIVE TrimEnd(_)
TrimEnd(t) ==
  IF t # <<>> /\ t[Len(t)] = " " THEN TrimEnd(SubSeq(t, 1, Len(t) - 1)) ELSE t

trim(t) == TrimEnd(TrimStart(t))

\* (a variant that always lists the seconds)
formatTimeAlwaysSeconds(totalSeconds) ==
  IF ~totalSeconds.defined \/ totalSeconds.x10 <= 0 THEN <<"0", "s">>
  ELSE LET rounded == (totalSeconds.x10 + 5) \div 10
       IN <<ToString(rounded \div 3600), "h", " ",
            ToString((rounded % 3600) \div 60), "m", " ",
            ToString(rounded % 60), "s">>

\* formatTime: "0s" when totalSeconds < 0 || !totalSeconds; else Math.round,
\* then the parts that are > 0 (the seconds also when nothing else is).
formatTime(totalSeconds) ==
  IF ~totalSeconds.defined \/ totalSeconds.x10 < 0 \/ totalSeconds.x10 = 0
    THEN <<"0", "s">>
    ELSE LET rounded == (totalSeconds.x10 + 5) \div 10
             hours == rounded \div 3600
             minutes == (rounded % 3600) \div 60
             seconds == rounded % 60
             s1 == IF hours > 0 THEN <<ToString(hours), "h", " ">> ELSE <<>>
             s2 == s1 \o (IF minutes > 0 THEN <<ToString(minutes), "m", " ">> ELSE <<>>)
             s3 == s2 \o (IF seconds > 0 \/ s2 = <<>>
                            THEN <<ToString(seconds), "s">> ELSE <<>>)
         IN trim(s3)

\* (a variant that shows the waste card only next to the area card)
WasteCardsWithArea(r) ==
  LET m == Results[r].global_metrics
  IN IF "waste_percentage" \in DOMAIN m /\ "total_material_area_sqm" \in DOMAIN m
       THEN << MetricCard("Desperdicio", <<ToString(m.waste_percentage), "%">>, "warning") >>
       ELSE <<>>

\* {metrics.total_material_area_sqm !== undefined && ...}; value `${...} m²`
AreaCards(r) ==
  LET m == Results[r].global_metrics
  IN IF "total_material_area_sqm" \in DOMAIN m
       THEN << MetricCard("Material Usado",
                          <<ToString(m.total_material_area_sqm), " m2">>, "") >>
       ELSE <<>>

\* {metrics.waste_percentage !== undefined && ...}
WasteCards(r) ==
  LET m == Results[r].global_metrics
  IN IF "waste_percentage" \in DOMAIN m
       THEN << MetricCard("Desperdicio", <<ToString(m.waste_percentage), "%">>, "warning") >>
       ELSE <<>>

\* {metrics.estimated_time_seconds !== undefined && ...}
TimeCards(r) ==
  LET m == Results[r].global_metrics
  IN IF "estimated_time_seconds10" \in DOMAIN m
       THEN << MetricCard("Tiempo de Corte",
                          formatTime(Num(m.estimated_time_seconds10)), "") >>
       ELSE <<>>

\* result.impossible_to_place_ids?.length > 0 / result.unplaced_piece_ids?.length > 0
IdsOf(r, field) == IF field \in DOMAIN Results[r] THEN Results[r][field] ELSE <<>>

ImpossibleCards(r) ==
  IF Len(IdsOf(r, "impossible_to_place_ids")) > 0
    THEN << MetricCard("Piezas Imposibles",
                       <<ToString(Len(IdsOf(r, "impossible_to_place_ids")))>>, "danger") >>
    ELSE <<>>

UnplacedCards(r) ==
  IF Len(IdsOf(r, "unplaced_piece_ids")) > 0
    THEN << MetricCard("Piezas Sin Espacio",
                       <<ToString(Len(IdsOf(r, "unplaced_piece_ids")))>>, "danger") >>
    ELSE <<>>

\* The cards of the grid, in order.
MetricsGrid(r) ==
  << IF Results[r].global_metrics.material_type = "sheet"
       THEN SheetsUsedCard(r) ELSE ConsumedLengthCard(r) >>
  \o AreaCards(r)
  \o << PlacedCard(r) >>
  \o WasteCards(r)
  \o TimeCards(r)
  \o ImpossibleCards(r)
  \o UnplacedCards(r)

\* ids.join(', ')
RECURSIVE join(_)
join(ids) ==
  IF ids = <<>> THEN <<>>
  ELSE IF Len(ids) = 1 THEN Head(ids)
  ELSE Head(ids) \o <<", ">> \o join(Tail(ids))

\* The <p className='warning-message'> lines under the grid: only
\* "IDs imposibles: ..." exists.
WarningMessages(r) ==
  IF Len(IdsOf(r, "impossible_to_place_ids")) > 0
    THEN << <<"IDs imposibles: ">> \o join(IdsOf(r, "impossible_to_place_ids")) >>
    ELSE <<>>

\* The messages on the page.
SummaryMessages == IF SummaryShown THEN WarningMessages(result) ELSE <<>>

\* The grid on the page.
SummaryCards == IF SummaryShown THEN MetricsGrid(result) ELSE <<>>

(***************************************************************************)
(* ReportExporter: CuttingLayout.handleDownloadPdf                         *)
(*                                                                         *)
(* Lengths are millimetres.  imgHeight = canvas.height * imgWidth /        *)
(* canvas.width is kept exact: yPos, an image's y and its height are       *)
(* numerators over cw, the canvas width of the call's captures (the sheet  *)
(* containers are blocks of one column, so they share their width).        *)
(***************************************************************************)
\* jsPDF's 'a4' page in mm (595.28 x 841.89 pt, which jsPDF reports as
\* 210.0016 x 297.0001; the whole millimetres are used).
pdfWidth == 210
pdfHeight == 297
margin == 10
TitleBlock == 20
ImageGap == 10

imgWidth == pdfWidth - margin * 2

\* html2canvas results: canvas.width and canvas.height in pixels.
CanvasWidths == {380, 760}
SheetCanvasHeights == {180, 314, 554, 600}
RollCanvasHeights == {200, 540, 1939, 11080}

\* (canvas.height * imgWidth) / canvas.width, times cw
imgHeightN(ch) == ch * imgWidth

Image(el, yN, hN) == [element |-> el, x |-> margin, y |-> yN, w |-> imgWidth, h |-> hN]

\* pdf.addPage()
addPage(doc) == Append(doc, <<>>)

\* pdf.addImage(...) on the current (last) page
addImage(doc, img) == [doc EXCEPT ![Len(doc)] = Append(@, img)]

\* (a variant that starts the call by clearing the registry)
ExportClickClearingRegistry ==
  /\ exportPc # "capture"
  /\ result # 0
  /\ Len(SheetsOf(result)) > 0
  /\ Len(canvases) > 0
  /\ \E c \in CanvasWidths :
       /\ cw' = c
       /\ yPos' = (margin + TitleBlock) * c
  /\ pdf' = << <<>> >>
  /\ exportMode' = Results[result].global_metrics.material_type
  /\ sheetElements' = IF Results[result].global_metrics.material_type = "roll"
                        THEN 1 ELSE Len(canvases)
  /\ idx' = 1
  /\ saved' = 0
  /\ exportPc' = "capture"
  /\ pieceColors' = ClearedMap(pieceColors)
  /\ UNCHANGED <<appVars, setLog, canvases, dpr, reportVars, formVars, fmtVars, sliceVars>>

\* The button is rendered when result.sheets is non-empty.  Up to the first
\* await: new jsPDF (one page), the title text, yPos = margin + 20, the
\* elements of the container.  The locals belong to one call; the variables
\* hold those of the latest call, started when no earlier call is suspended.
ExportClick ==
  /\ exportPc # "capture"
  /\ result # 0
  /\ Len(SheetsOf(result)) > 0
  /\ Len(canvases) > 0
  /\ \E c \in CanvasWidths :
       /\ cw' = c
       /\ yPos' = (margin + TitleBlock) * c
  /\ pdf' = << <<>> >>
  /\ exportMode' = Results[result].global_metrics.material_type
  /\ sheetElements' = IF Results[result].global_metrics.material_type = "roll"
                        THEN 1 ELSE Len(canvases)
  /\ idx' = 1
  /\ saved' = 0
  /\ exportPc' = "capture"
  /\ UNCHANGED <<appVars, viewVars, reportVars, formVars, fmtVars, sliceVars>>

\* (a variant that also moves an image ending on the margin line)
OverflowsAtOrBeyond(y, hN, c) == y + hN >= (pdfHeight - margin) * c

\* (a variant that tests against the page edge instead of the bottom margin)
OverflowsPageEdge(y, hN, c) == y + hN > pdfHeight * c

\* if (yPos + imgHeight > pdfHeight - margin)
Overflows(y, hN, c) == y + hN > (pdfHeight - margin) * c

\* (a variant that adds the page and leaves the cursor where it was)
PlaceSheetNoReset(doc, y, el, hN, c) ==
  LET over == Overflows(y, hN, c)
      d1 == IF over THEN addPage(doc) ELSE doc
  IN [pdf |-> addImage(d1, Image(el, y, hN)), yPos |-> y + hN + ImageGap * c]

\* (a variant that walks the elements from the last to the first)
PlaceSheetLastFirst(doc, y, el, hN, c) ==
  LET over == Overflows(y, hN, c)
      d1 == IF over THEN addPage(doc) ELSE doc
      y1 == IF over THEN margin * c ELSE y
  IN [pdf |-> addImage(d1, Image(sheetElements + 1 - el, y1, hN)),
      yPos |-> y1 + hN + ImageGap * c]

\* One iteration of the for loop after its await.
PlaceSheet(doc, y, el, hN, c) ==
  LET over == Overflows(y, hN, c)
      d1 == IF over THEN addPage(doc) ELSE doc
      y1 == IF over THEN margin * c ELSE y
  IN [pdf |-> addImage(d1, Image(el, y1, hN)), yPos |-> y1 + hN + ImageGap * c]

\* html2canvas resolves for sheetElements[idx]; after the last element the
\* loop ends and pdf.save runs in the same continuation.
SheetCaptured ==
  /\ exportPc = "capture"
  /\ exportMode # "roll"
  /\ \E ch \in SheetCanvasHeights :
       LET placed == PlaceSheet(pdf, yPos, idx, imgHeightN(ch), cw)
       IN /\ pdf' = placed.pdf
          /\ yPos' = placed.yPos
  /\ idx' = idx + 1
  /\ IF idx = sheetElements
       THEN saved' = saved + 1 /\ exportPc' = "saved"
       ELSE UNCHANGED <<saved, exportPc>>
  /\ UNCHANGED <<appVars, viewVars, reportVars, exportMode, sheetElements, cw, formVars, fmtVars, sliceVars>>

\* while (heightLeft > 0) { position -= ...; addPage; addImage; heightLeft -= pdfHeight }
RECURSIVE RollLoop(_, _, _, _, _)
RollLoop(doc, left, from, hN, c) ==
  IF left > 0
    THEN LET pos == from - (pdfHeight - margin * 2) * c
         IN RollLoop(addImage(addPage(doc), Image(1, pos, hN)),
                     left - pdfHeight * c, pos, hN, c)
    ELSE doc

\* The roll branch after its await: the first addImage at yPos, then the loop.
RollDocument(doc, y, hN, c) ==
  RollLoop(addImage(doc, Image(1, y, hN)), hN - (pdfHeight * c - y), 0, hN, c)

RollCaptured ==
  /\ exportPc = "capture"
  /\ exportMode = "roll"
  /\ \E ch \in RollCanvasHeights :
       pdf' = RollDocument(pdf, yPos, imgHeightN(ch), cw)
  /\ saved' = saved + 1
  /\ exportPc' = "saved"
  /\ idx' = idx + 1
  /\ UNCHANGED <<appVars, viewVars, reportVars, exportMode, sheetElements, cw, yPos, formVars, fmtVars, sliceVars>>

\* (a variant that saves what was placed before the rejected capture)
CaptureFailedSavingPartial ==
  /\ exportPc = "capture"
  /\ exportPc' = "failed"
  /\ saved' = saved + 1
  /\ UNCHANGED <<appVars, viewVars, reportVars, exportMode, sheetElements, idx, cw, pdf, yPos, formVars, fmtVars, sliceVars>>

\* html2canvas rejects: the async function rejects at its await; nothing
\* after it runs.
CaptureFailed ==
  /\ exportPc = "capture"
  /\ exportPc' = "failed"
  /\ UNCHANGED <<appVars, viewVars, reportVars, exportMode, sheetElements, idx, cw, pdf, yPos, saved, formVars, fmtVars, sliceVars>>

(***************************************************************************)
(* The whole-report variant of CuttingLayout.handleDownloadPdf: it         *)
(* captures the results area in one image after forcing the container to   *)
(* its full height.  Its button is not disabled while a call is suspended, *)
(* so calls may overlap; call k is the k-th click.  An image's y and       *)
(* height are numerators over the call's canvas.width.                     *)
(***************************************************************************)
MaxReportCalls == 2

ReportCallIds == 1 .. MaxReportCalls

\* html2canvas results for the results area (scale: 2).
ReportCanvasWidths == {760, 1520}
ReportCanvasHeights == {400, 1075, 3000}

NoCall ==
  [pc |-> "idle", originalHeight |-> "", originalOverflow |-> "",
   cw |-> 0, pdf |-> <<>>, saved |-> 0, thrownBy |-> ""]

\* pdfWidth / (canvasWidth / canvasHeight), times canvasWidth
reportImgHeightN(ch) == pdfWidth * ch

ReportImage(yN, hN) == [element |-> 1, x |-> 0, y |-> yN, w |-> pdfWidth, h |-> hN]

\* while (heightLeft > 0) { position = heightLeft - imgHeight; addPage; addImage; heightLeft -= pdfHeight }
RECURSIVE ReportLoop(_, _, _, _)
ReportLoop(doc, left, hN, c) ==
  IF left > 0
    THEN ReportLoop(addImage(addPage(doc), ReportImage(left - hN, hN)),
                    left - pdfHeight * c, hN, c)
    ELSE doc

\* new jsPDF (one page), the first addImage at position 0, then the loop.
ReportDocument(hN, c) ==
  ReportLoop(addImage(<< <<>> >>, ReportImage(0, hN)), hN - pdfHeight * c, hN, c)

\* The button is rendered when result.sheets is non-empty; the results area
\* is always mounted.  Up to the first await: the original styles are read
\* from the element, then it is set to height 'auto', overflow 'visible'.
ReportClick ==
  /\ result # 0
  /\ Len(SheetsOf(result)) > 0
  /\ \E k \in ReportCallIds :
       /\ reportCalls[k].pc = "idle"
       /\ \A j \in 1 .. k - 1 : reportCalls[j].pc # "idle"
       /\ reportCalls' = [reportCalls EXCEPT ![k] =
            [@ EXCEPT !.pc = "timer",
                      !.originalHeight = styleHeight,
                      !.originalOverflow = styleOverflow]]
  /\ styleHeight' = "auto"
  /\ styleOverflow' = "visible"
  /\ UNCHANGED <<appVars, viewVars, exportVars, formVars, fmtVars, sliceVars>>

\* The 50 ms timer resolves: the try block is entered and html2canvas called.
ReportTimerFired ==
  \E k \in ReportCallIds :
    /\ reportCalls[k].pc = "timer"
    /\ reportCalls' = [reportCalls EXCEPT ![k].pc = "capture"]
    /\ UNCHANGED <<appVars, viewVars, exportVars, styleHeight, styleOverflow, formVars, fmtVars, sliceVars>>

\* (a variant whose catch block only logs)
ReportCatchLogOnly(k) ==
  /\ styleHeight' = styleHeight
  /\ styleOverflow' = styleOverflow

\* The restore of the try block (lines 92-93).
ReportRestore(k) ==
  /\ styleHeight' = reportCalls[k].originalHeight
  /\ styleOverflow' = reportCalls[k].originalOverflow

\* The catch block: console.error, then the same two assignments.
ReportCatch(k) ==
  /\ styleHeight' = reportCalls[k].originalHeight
  /\ styleOverflow' = reportCalls[k].originalOverflow

\* html2canvas resolves: restore, build the document, pdf.save.
ReportCaptured ==
  \E k \in ReportCallIds :
    /\ reportCalls[k].pc = "capture"
    /\ ReportRestore(k)
    /\ \E c \in ReportCanvasWidths, ch \in ReportCanvasHeights :
         reportCalls' = [reportCalls EXCEPT ![k] =
           [@ EXCEPT !.pc = "saved", !.cw = c,
                     !.pdf = ReportDocument(reportImgHeightN(ch), c),
                     !.saved = @ + 1]]
    /\ UNCHANGED <<appVars, viewVars, exportVars, formVars, fmtVars, sliceVars>>

\* html2canvas rejects: the catch block runs.
ReportCaptureFailed ==
  \E k \in ReportCallIds :
    /\ reportCalls[k].pc = "capture"
    /\ ReportCatch(k)
    /\ reportCalls' = [reportCalls EXCEPT ![k] =
         [@ EXCEPT !.pc = "failed", !.thrownBy = "html2canvas"]]
    /\ UNCHANGED <<appVars, viewVars, exportVars, formVars, fmtVars, sliceVars>>

\* html2canvas resolves and the styles are restored, then canvas.toDataURL
\* throws (a tainted canvas): the catch block restores them again.
ReportEncodeFailed ==
  \E k \in ReportCallIds :
    /\ reportCalls[k].pc = "capture"
    /\ ReportCatch(k)
    /\ reportCalls' = [reportCalls EXCEPT ![k] =
         [@ EXCEPT !.pc = "failed", !.thrownBy = "toDataURL"]]
    /\ UNCHANGED <<appVars, viewVars, exportVars, formVars, fmtVars, sliceVars>>

vars == <<appVars, viewVars, exportVars, reportVars, formVars, fmtVars, sliceVars>>

ExportIdle ==
  /\ exportPc = "idle"
  /\ exportMode = "sheet"
  /\ sheetElements = 0
  /\ idx = 1
  /\ cw = 380
  /\ pdf = <<>>
  /\ yPos = 0
  /\ saved = 0

ReportIdle ==
  /\ styleHeight = ""
  /\ styleOverflow = ""
  /\ reportCalls = [k \in ReportCallIds |-> NoCall]

(***************************************************************************)
(* InputForm (part_002, third version): the values of its fields.  A field *)
(* holds the string the user typed (e.target.value) or a number (initial   *)
(* state, Number(...) of a spreadsheet cell), the number in tenths.        *)
(***************************************************************************)
Typed(text) == [kind |-> "string", text |-> text, x10 |-> 0]
Numeric(x10) == [kind |-> "number", text |-> "", x10 |-> x10]

\* What a handler of the form did besides setting state: the arguments of
\* its onSubmit calls and whether it raised the alert.
NoOutput == [calls |-> <<>>, alert |-> FALSE]

\* useState initial values of the form.
FormInitial ==
  /\ materialType = "sheet"
  /\ rollWidth = Numeric(13700)
  /\ pieces = <<[id |-> Typed("P1"), width |-> Numeric(6000),
                 height |-> Numeric(4000), quantity |-> Numeric(10)]>>
  /\ sent = NoOutput

\* No formatTime call under observation.
FormatIdle ==
  /\ timeArg = Undefined
  /\ timeText = <<>>

\* No page-slicing loop under observation.
SliceIdle ==
  /\ slicePc = "idle"
  /\ sliceH = 0
  /\ sliceC = 0
  /\ heightLeft = 0
  /\ position = 0
  /\ sliceDoc = <<>>

Init ==
  /\ ExportIdle
  /\ ReportIdle
  /\ FormInitial
  /\ FormatIdle
  /\ SliceIdle
  /\ result = 0
  /\ isLoading = FALSE
  /\ error = ""
  /\ fetching = {}
  /\ requests = 0
  /\ shownFrom = 0
  /\ pieceColors = EmptyMap
  /\ setLog = <<>>
  /\ canvases = <<>>
  /\ dpr \in DevicePixelRatios

Next ==
  \/ Submit
  \/ FetchOk
  \/ FetchFail
  \/ ExportClick
  \/ SheetCaptured
  \/ RollCaptured
  \/ CaptureFailed

Spec == Init /\ [][Next]_vars

(***************************************************************************)
(* The request life cycle and the view on their own: no export is started. *)
(***************************************************************************)
ViewNext ==
  \/ Submit
  \/ FetchOk
  \/ FetchFail

ViewSpec == Init /\ [][ViewNext]_vars

(***************************************************************************)
(* The export on its own, from the states in which the first result of a   *)
(* session is displayed (Init, Submit, FetchOk).                           *)
(***************************************************************************)
FirstResultDisplayed ==
  /\ ExportIdle
  /\ ReportIdle
  /\ FormInitial
  /\ FormatIdle
  /\ SliceIdle
  /\ isLoading = FALSE
  /\ error = ""
  /\ fetching = {}
  /\ requests = 1
  /\ shownFrom = 1
  /\ dpr \in DevicePixelRatios
  /\ \E r \in ResultIds : \E rnd \in RandomDraws(r) :
       /\ result = r
       /\ LET c == CommitEffects(r, EmptyMap, <<>>, rnd, dpr)
          IN /\ canvases = c.canvases
             /\ pieceColors = c.map
             /\ setLog = c.log

ExportNext ==
  \/ ExportClick
  \/ SheetCaptured
  \/ RollCaptured
  \/ CaptureFailed

ExportSpec == FirstResultDisplayed /\ [][ExportNext]_vars

(***************************************************************************)
(* The export of the whole-report variant on its own, from the same states.*)
(***************************************************************************)
ReportNext ==
  \/ ReportClick
  \/ ReportTimerFired
  \/ ReportCaptured
  \/ ReportCaptureFailed
  \/ ReportEncodeFailed

ReportSpec == FirstResultDisplayed /\ [][ReportNext]_vars

(***************************************************************************)
(* A session runs one of the two versions of CuttingLayout: the exports of *)
(* one version, from the states in which the first result is displayed.    *)
(***************************************************************************)
EitherExportNext ==
  \/ ReportIdle /\ ExportNext
  \/ ExportIdle /\ ReportNext

EitherExportSpec == FirstResultDisplayed /\ [][EitherExportNext]_vars

(***************************************************************************)
(* The draw effect run again for the sheets on display (same sheetData,    *)
(* same registry), from the states in which the first result is displayed. *)
(***************************************************************************)
MaxDraws == 3

Redraw ==
  \E i \in DOMAIN canvases :
    /\ canvases[i].draws < MaxDraws
    /\ canvases' = [canvases EXCEPT
                      ![i] = DrawAgain(@, SheetsOf(result)[i], pieceColors, dpr)]
    /\ UNCHANGED <<appVars, pieceColors, setLog, dpr, exportVars, reportVars,
                   formVars, fmtVars, sliceVars>>

DrawNext ==
  \/ Redraw

DrawSpec == FirstResultDisplayed /\ [][DrawNext]_vars

(***************************************************************************)
(* InputForm on its own: its handlers, with onSubmit observed.             *)
(***************************************************************************)
MaxPieces == 2

\* useState(2440), useState(1220): not edited here.
sheetWidth == Numeric(24400)
sheetHeight == Numeric(12200)

\* Number(text) for the texts typed here, in tenths; Number('') is 0.
NumberOfText(t) ==
  CASE t = "" -> 0
    [] t = "0" -> 0
    [] t = "2" -> 20
    [] t = "400" -> 4000
    [] t = "600" -> 6000
    [] t = "1000" -> 10000

\* Number(v)
Number(v) == IF v.kind = "number" THEN v.x10 ELSE NumberOfText(v.text)

\* parseInt(v, 10) of a numeral: the integer part; applied after the filter.
parseInt(v) ==
  LET x == Number(v)
  IN IF x >= 0 THEN (x \div 10) * 10 ELSE 0 - (((0 - x) \div 10) * 10)

\* String(v)
String(v) == v.text

\* `P${pieces.length + 1}` and `Pieza-${index + 1}`
PLabels == <<"P1", "P2", "P3", "P4">>
PiezaLabels == <<"Pieza-1", "Pieza-2", "Pieza-3", "Pieza-4">>

\* The values typed into a field of a piece row.
FieldTexts ==
  [width |-> {"", "600"}, height |-> {"400"}, quantity |-> {"0", "2"}]

\* Spreadsheets: rows of sheet_to_json, a cell absent when its key is.
Files ==
  << << [ID |-> Typed("A"), ancho |-> Numeric(6000), alto |-> Numeric(4000),
         Cant |-> Numeric(25)],
        [alto |-> Numeric(4000)],
        [ID |-> Typed("C"), width |-> Numeric(6000), height |-> Numeric(4000),
         Cant |-> Numeric(0 - 10)] >>,
     << >> >>

Truthy(v) == IF v.kind = "number" THEN v.x10 # 0 ELSE v.text # ""

\* row.k1 || row.k2 || ... || default
RECURSIVE Cell(_, _, _)
Cell(row, keys, default) ==
  IF keys = <<>> THEN default
  ELSE IF Head(keys) \in DOMAIN row /\ Truthy(row[Head(keys)]) THEN row[Head(keys)]
  ELSE Cell(row, Tail(keys), default)

\* The object json.map builds for the row at (0-based) index - 1.
RowPiece(row, index) ==
  [id |-> Typed(String(Cell(row, <<"ID", "id">>, Typed(PiezaLabels[index])))),
   width |-> Numeric(Number(Cell(row, <<"width", "ancho">>, Numeric(0)))),
   height |-> Numeric(Number(Cell(row, <<"height", "alto">>, Numeric(0)))),
   quantity |-> Numeric(Number(Cell(row, <<"Cant", "cant", "Cantidad">>, Numeric(10))))]

\* (a variant of the filter that does not look at the quantity)
IsValidPieceIgnoringQuantity(p) == Number(p.width) > 0 /\ Number(p.height) > 0

\* p => Number(p.width) > 0 && Number(p.height) > 0 && Number(p.quantity) > 0
IsValidPiece(p) ==
  Number(p.width) > 0 /\ Number(p.height) > 0 /\ Number(p.quantity) > 0

\* .map(p => ({id: String(p.id), width: Number(...), height: Number(...),
\*             quantity: parseInt(p.quantity, 10)}))
RequestPiece(p) ==
  [id |-> String(p.id), width |-> Number(p.width), height |-> Number(p.height),
   quantity |-> parseInt(p.quantity)]

RECURSIVE ValidPieces(_)
ValidPieces(ps) ==
  IF ps = <<>> THEN <<>>
  ELSE (IF IsValidPiece(Head(ps)) THEN <<RequestPiece(Head(ps))>> ELSE <<>>)
       \o ValidPieces(Tail(ps))

\* The argument of onSubmit (kerf, grain and machine parameters left out).
RequestData(valid) ==
  [material_type |-> materialType,
   sheet |-> IF materialType = "sheet"
               THEN [width |-> Number(sheetWidth), height |-> Number(sheetHeight)]
               ELSE [width |-> Number(rollWidth), height |-> 0 - 10],
   pieces |-> valid]

FormFrame == UNCHANGED <<appVars, viewVars, exportVars, reportVars, fmtVars, sliceVars>>

handleAddPiece ==
  /\ Len(pieces) < MaxPieces
  /\ pieces' = Append(pieces, [id |-> Typed(PLabels[Len(pieces) + 1]),
                               width |-> Typed(""), height |-> Typed(""),
                               quantity |-> Numeric(10)])
  /\ sent' = NoOutput
  /\ UNCHANGED <<materialType, rollWidth>>
  /\ FormFrame

handleRemovePiece ==
  \E indexToRemove \in DOMAIN pieces :
    /\ pieces' = SubSeq(pieces, 1, indexToRemove - 1)
                   \o SubSeq(pieces, indexToRemove + 1, Len(pieces))
    /\ sent' = NoOutput
    /\ UNCHANGED <<materialType, rollWidth>>
    /\ FormFrame

handlePieceChange ==
  \E index \in DOMAIN pieces, field \in DOMAIN FieldTexts :
    \E value \in FieldTexts[field] :
      /\ pieces' = [pieces EXCEPT ![index] = [@ EXCEPT ![field] = Typed(value)]]
      /\ sent' = NoOutput
      /\ UNCHANGED <<materialType, rollWidth>>
      /\ FormFrame

\* reader.onload of handleFileChange
handleFileChange ==
  \E f \in DOMAIN Files :
    LET json == Files[f]
        newPieces == SelectSeq([i \in DOMAIN json |-> RowPiece(json[i], i)],
                               LAMBDA p : p.quantity.x10 > 0)
    IN /\ pieces' = newPieces
       /\ sent' = NoOutput
       /\ UNCHANGED <<materialType, rollWidth>>
       /\ FormFrame

setMaterialType ==
  \E m \in {"sheet", "roll"} :
    /\ materialType' = m
    /\ sent' = NoOutput
    /\ UNCHANGED <<rollWidth, pieces>>
    /\ FormFrame

setRollWidth ==
  /\ materialType = "roll"
  /\ rollWidth' = Typed("1000")
  /\ sent' = NoOutput
  /\ UNCHANGED <<materialType, pieces>>
  /\ FormFrame

\* The submit button is disabled while isLoading.
handleSubmit ==
  /\ ~isLoading
  /\ LET validPieces == ValidPieces(pieces)
     IN IF Len(validPieces) = 0
          THEN sent' = [calls |-> <<>>, alert |-> TRUE]
          ELSE sent' = [calls |-> <<RequestData(validPieces)>>, alert |-> FALSE]
  /\ UNCHANGED <<materialType, rollWidth, pieces>>
  /\ FormFrame

FormInit ==
  /\ ExportIdle
  /\ ReportIdle
  /\ FormInitial
  /\ FormatIdle
  /\ SliceIdle
  /\ result = 0
  /\ isLoading = FALSE
  /\ error = ""
  /\ fetching = {}
  /\ requests = 0
  /\ shownFrom = 0
  /\ pieceColors = EmptyMap
  /\ setLog = <<>>
  /\ canvases = <<>>
  /\ dpr \in DevicePixelRatios

FormNext ==
  \/ handleAddPiece
  \/ handleRemovePiece
  \/ handlePieceChange
  \/ handleFileChange
  \/ setMaterialType
  \/ setRollWidth
  \/ handleSubmit

FormSpec == FormInit /\ [][FormNext]_vars

(***************************************************************************)
(* The page-slicing loops on their own, one iteration per step: the roll   *)
(* branch of CuttingLayout.js and the loop of the whole-report variant,    *)
(* from the state after the first addImage, for each capture size.         *)
(***************************************************************************)
SliceRollStart ==
  \E c \in CanvasWidths, ch \in RollCanvasHeights :
    LET hN == imgHeightN(ch)
        y == (margin + TitleBlock) * c
    IN /\ slicePc = "roll"
       /\ sliceC = c
       /\ sliceH = hN
       /\ sliceDoc = addImage(<< <<>> >>, Image(1, y, hN))
       /\ heightLeft = hN - (pdfHeight * c - y)
       /\ position = 0

SliceReportStart ==
  \E c \in ReportCanvasWidths, ch \in ReportCanvasHeights :
    LET hN == reportImgHeightN(ch)
    IN /\ slicePc = "report"
       /\ sliceC = c
       /\ sliceH = hN
       /\ sliceDoc = addImage(<< <<>> >>, ReportImage(0, hN))
       /\ heightLeft = hN - pdfHeight * c
       /\ position = 0

\* (a variant whose body does not touch heightLeft)
RollIterationKeepingHeight ==
  /\ slicePc = "roll"
  /\ heightLeft > 0
  /\ position' = position - (pdfHeight - margin * 2) * sliceC
  /\ sliceDoc' = addImage(addPage(sliceDoc), Image(1, position', sliceH))
  /\ UNCHANGED <<appVars, viewVars, exportVars, reportVars, formVars, fmtVars,
                 slicePc, sliceH, sliceC, heightLeft>>

\* One pass through the body of while (heightLeft > 0), roll branch.
RollIteration ==
  /\ slicePc = "roll"
  /\ heightLeft > 0
  /\ position' = position - (pdfHeight - margin * 2) * sliceC
  /\ sliceDoc' = addImage(addPage(sliceDoc), Image(1, position', sliceH))
  /\ heightLeft' = heightLeft - pdfHeight * sliceC
  /\ UNCHANGED <<appVars, viewVars, exportVars, reportVars, formVars, fmtVars,
                 slicePc, sliceH, sliceC>>

\* One pass through the body of while (heightLeft > 0), whole-report variant.
ReportIteration ==
  /\ slicePc = "report"
  /\ heightLeft > 0
  /\ position' = heightLeft - sliceH
  /\ sliceDoc' = addImage(addPage(sliceDoc), ReportImage(position', sliceH))
  /\ heightLeft' = heightLeft - pdfHeight * sliceC
  /\ UNCHANGED <<appVars, viewVars, exportVars, reportVars, formVars, fmtVars,
                 slicePc, sliceH, sliceC>>

\* The loop condition is false: pdf.save(...).
SliceSave ==
  /\ slicePc \in {"roll", "report"}
  /\ ~(heightLeft > 0)
  /\ slicePc' = "saved"
  /\ UNCHANGED <<appVars, viewVars, exportVars, reportVars, formVars, fmtVars,
                 sliceH, sliceC, heightLeft, position, sliceDoc>>

SliceInit ==
  /\ ExportIdle
  /\ ReportIdle
  /\ FormInitial
  /\ FormatIdle
  /\ result = 0
  /\ isLoading = FALSE
  /\ error = ""
  /\ fetching = {}
  /\ requests = 0
  /\ shownFrom = 0
  /\ pieceColors = EmptyMap
  /\ setLog = <<>>
  /\ canvases = <<>>
  /\ dpr \in DevicePixelRatios
  /\ (SliceRollStart \/ SliceReportStart)

SliceNext ==
  \/ RollIteration
  \/ ReportIteration
  \/ SliceSave

\* The handler runs to completion once the capture has resolved.
SliceSpec == SliceInit /\ [][SliceNext]_vars /\ WF_vars(SliceNext)

(***************************************************************************)
(* formatTime on its own: one call, its argument drawn from the inputs.    *)
(***************************************************************************)
MaxWholeSeconds == 130
\* Whole numbers of seconds: a run from 1, and values around the minute, the
\* hour and the day.
WholeSeconds ==
  (1 .. MaxWholeSeconds)
    \cup {3599, 3600, 3601, 3660, 3661, 7200, 7259, 7260, 86399, 86400, 90061}
\* Fractions of a second around zero, in tenths.
TenthsAroundZero == -30 .. 30
TimeInputs ==
  {Undefined} \cup {Num(t) : t \in TenthsAroundZero}
              \cup {Num(10 * s) : s \in WholeSeconds}

FormatTimeCall ==
  /\ timeText = <<>>
  /\ timeText' = formatTime(timeArg)
  /\ UNCHANGED <<appVars, viewVars, exportVars, reportVars, formVars, timeArg, sliceVars>>

FormatInit ==
  /\ ExportIdle
  /\ ReportIdle
  /\ FormInitial
  /\ SliceIdle
  /\ result = 0
  /\ isLoading = FALSE
  /\ error = ""
  /\ fetching = {}
  /\ requests = 0
  /\ shownFrom = 0
  /\ pieceColors = EmptyMap
  /\ setLog = <<>>
  /\ canvases = <<>>
  /\ dpr \in DevicePixelRatios
  /\ timeArg \in TimeInputs
  /\ timeText = <<>>

FormatNext ==
  \/ FormatTimeCall

FormatSpec == FormatInit /\ [][FormatNext]_vars

(***************************************************************************)
(* Properties of the colour registry and the renderer (ViewSpec)           *)
(***************************************************************************)
\* The placed pieces of the sheet shown on canvas i.
PiecesOn(i) == SheetsOf(result)[i].placed_pieces

\* The fillRect call that canvas i holds for the k-th placed piece.
FillOf(i, k) ==
  LET calls == canvases[i].calls
  IN calls[CHOOSE a \in DOMAIN calls : calls[a].op = "fillRect" /\ calls[a].piece = k]

\* <<i, k>> for every placed piece k of every sheet i on display.
Displayed ==
  UNION { { <<i, k>> : k \in 1 .. Len(PiecesOn(i)) } : i \in DOMAIN canvases }

SameBaseId(p, q) == p.type = q.type \/ baseIdOf(p.id) = baseIdOf(q.id)

\* C1: on the canvases of the displayed result, two placed pieces with the
\* same base id, on one sheet or on two, are filled with the same colour.
C1_SameBaseIdSameColour ==
  \A a \in Displayed, b \in Displayed :
    SameBaseId(PiecesOn(a[1])[a[2]], PiecesOn(b[1])[b[2]])
      => FillOf(a[1], a[2]).style = FillOf(b[1], b[2]).style

\* Two instances of one piece type on two sheets, filled with a registry colour.
C1_Witness ==
  \E a \in Displayed, b \in Displayed :
    /\ a[1] # b[1]
    /\ PiecesOn(a[1])[a[2]].type = PiecesOn(b[1])[b[2]].type
    /\ FillOf(a[1], a[2]).style # Gray
    /\ FillOf(a[1], a[2]).style = FillOf(b[1], b[2]).style

\* C2: every fill drawn for a placed piece of the displayed result uses the
\* colour that the registry, rebuilt for that result, holds for the piece's
\* base id (never gray, never a colour of an earlier result).
C2_FillsUseRebuiltRegistry ==
  \A a \in Displayed :
    LET f == FillOf(a[1], a[2])
    IN /\ f.baseId \in DOMAIN pieceColors
       /\ f.style = pieceColors[f.baseId]

\* The base ids of a sequence of pieces, each once, in order of first occurrence.
RECURSIVE FirstOccurrences(_, _)
FirstOccurrences(placed, seen) ==
  IF placed = <<>> THEN <<>>
  ELSE LET b == baseIdOf(Head(placed).id)
       IN IF b \in seen
            THEN FirstOccurrences(Tail(placed), seen)
            ELSE <<b>> \o FirstOccurrences(Tail(placed), seen \cup {b})

\* C3: once rebuilt for the displayed result, the registry holds exactly the
\* base ids placed on its sheets, each set once, in scan order, with the
\* colour generated at its first occurrence.
C3_RegistryIsExactlyThePlacedBaseIds ==
  HasSheets(result) =>
    LET firsts == FirstOccurrences(PlacedPieces(result), {})
    IN /\ DOMAIN pieceColors = { baseIdOf(p.id) : p \in Range(PlacedPieces(result)) }
       /\ Len(setLog) = Len(firsts)
       /\ \A n \in DOMAIN setLog :
            /\ setLog[n].key = firsts[n]
            /\ pieceColors[setLog[n].key] = setLog[n].color

\* A result with a base id met twice is displayed, drawn while the registry
\* still held entries of an earlier result, and rebuilt since.
C3_Witness ==
  /\ result # 0
  /\ Len(setLog) < Len(PlacedPieces(result))
  /\ Len(setLog) > 0
  /\ \E a \in Displayed : FillOf(a[1], a[2]).style # Gray
  /\ C3_RegistryIsExactlyThePlacedBaseIds

\* C4: the base id computed for a placed piece is its piece-type id (the id
\* without the trailing instance suffix), so two pieces share a registry key
\* only when they are instances of one piece type.
C4_BaseIdIsPieceType ==
  /\ \A a \in Displayed : FillOf(a[1], a[2]).baseId = PiecesOn(a[1])[a[2]].type
  /\ HasSheets(result) =>
       DOMAIN pieceColors = { p.type : p \in Range(PlacedPieces(result)) }

\* C5: a sheet with width <= 0 or height <= 0 gets no drawing call.
C5_DegenerateSheetNotDrawn ==
  \A i \in DOMAIN canvases :
    LET d == SheetsOf(result)[i].sheet_dimensions
    IN (d.width <= 0 \/ d.height <= 0) => canvases[i].calls = <<>>

IsTextOf(c, k) == c.op = "fillText" /\ c.piece = k

\* The fillText calls that canvas i holds for the k-th placed piece, in order.
RECURSIVE TextsOf(_, _)
TextsOf(calls, k) ==
  IF calls = <<>> THEN <<>>
  ELSE (IF IsTextOf(Head(calls), k) THEN <<Head(calls)>> ELSE <<>>)
       \o TextsOf(Tail(calls), k)

\* C6: a placed piece is labelled iff width > 30 and height > 20; the label
\* is two lines, the base id and "<width>x<height>", centred horizontally on
\* the rectangle, half a font size above and below its vertical centre.
C6_LabelPolicy ==
  \A a \in Displayed :
    LET p == PiecesOn(a[1])[a[2]]
        t == TextsOf(canvases[a[1]].calls, a[2])
    IN /\ (Len(t) > 0) <=> (p.width > 30 /\ p.height > 20)
       /\ Len(t) > 0 =>
            /\ Len(t) = 2
            /\ t[1].text = baseIdOf(p.id)
            /\ t[2].text = <<ToString(p.width), "x", ToString(p.height)>>
            /\ \A n \in 1 .. 2 : t[n].x10 = 10 * p.x + 5 * p.width
                                  /\ t[n].align = "center"
                                  /\ t[n].baseline = "middle"
            /\ 2 * (10 * p.y + 5 * p.height - t[1].y10) = t[1].font10
            /\ 2 * (t[2].y10 - (10 * p.y + 5 * p.height)) = t[2].font10
       /\ (p.width = 20 /\ p.height = 50) => Len(t) = 0
       /\ (p.width = 50 /\ p.height = 50) => Len(t) = 2

\* One canvas shows a 20x50 piece without label and a 50x50 piece with its
\* two lines; another shows a labelled piece just above both thresholds.
C6_Witness ==
  /\ \E a \in Displayed, b \in Displayed :
       /\ a[1] = b[1]
       /\ PiecesOn(a[1])[a[2]].width = 20 /\ PiecesOn(a[1])[a[2]].height = 50
       /\ TextsOf(canvases[a[1]].calls, a[2]) = <<>>
       /\ PiecesOn(b[1])[b[2]].width = 50 /\ PiecesOn(b[1])[b[2]].height = 50
       /\ Len(TextsOf(canvases[b[1]].calls, b[2])) = 2
  /\ \E c \in Displayed :
       /\ PiecesOn(c[1])[c[2]].width = 31 /\ PiecesOn(c[1])[c[2]].height = 21
       /\ Len(TextsOf(canvases[c[1]].calls, c[2])) = 2

(***************************************************************************)
(* Properties of the export (ExportSpec)                                   *)
(***************************************************************************)
\* The images of the document in page order.
Placed == Flatten(pdf)

\* Where the cursor stands on an empty page p, and the bottom margin line.
PageTop(p) == (IF p = 1 THEN margin + TitleBlock ELSE margin) * cw
PageBottom == (pdfHeight - margin) * cw

\* The cursor after the last image of page p (an empty page: its top).
PageEnd(p) ==
  IF pdf[p] = <<>> THEN PageTop(p)
  ELSE pdf[p][Len(pdf[p])].y + pdf[p][Len(pdf[p])].h + ImageGap * cw

InSheetExport == exportPc # "idle" /\ exportMode = "sheet"

\* C7: in a sheet export every captured sheet image is on exactly one page,
\* whole, in capture order; images of a page are stacked from the cursor
\* (each at the previous image's end plus the gap); an image starts a new
\* page, at the top margin, exactly when it would pass the bottom margin
\* line at the cursor; the cursor stands past the last image.
C7_SheetsPlacedWholeAtCursor ==
  InSheetExport =>
    /\ Len(pdf) >= 1
    /\ Len(Placed) = idx - 1
    /\ \A n \in DOMAIN Placed : Placed[n].element = n
    /\ exportPc = "saved" => idx - 1 = sheetElements
    /\ yPos = PageEnd(Len(pdf))
    /\ \A p \in DOMAIN pdf :
         /\ p > 1 => pdf[p] # <<>>
         /\ \A k \in DOMAIN pdf[p] :
              LET img == pdf[p][k]
              IN IF k = 1
                   THEN /\ img.y = PageTop(p)
                        /\ p = 1 => img.y + img.h <= PageBottom
                        /\ p > 1 => PageEnd(p - 1) + img.h > PageBottom
                   ELSE /\ img.y = pdf[p][k - 1].y + pdf[p][k - 1].h + ImageGap * cw
                        /\ img.y + img.h <= PageBottom

\* A saved document of several sheets with two images on one page and an
\* image that started a later page.
C7_Witness ==
  /\ InSheetExport
  /\ exportPc = "saved"
  /\ Len(pdf) >= 2
  /\ \E p \in DOMAIN pdf : Len(pdf[p]) >= 2
  /\ sheetElements = 3

RECURSIVE SumHeights(_)
SumHeights(imgs) == IF imgs = <<>> THEN 0 ELSE Head(imgs).h + SumHeights(Tail(imgs))

\* C8 as stated: sheets whose image heights sum to less than the page
\* height minus both margins give one page with all images in order; a
\* second page is started only by an image that would overflow.
C8_OnePageWhenSumBelowContentHeight ==
  (InSheetExport /\ exportPc = "saved") =>
    /\ SumHeights(Placed) < (pdfHeight - margin * 2) * cw =>
         /\ Len(pdf) = 1
         /\ \A n \in DOMAIN Placed : Placed[n].element = n
    /\ Len(pdf) >= 2 => PageEnd(1) + pdf[2][1].h > PageBottom

\* C8 amended: the heights plus the gap after each image but the last must
\* fit between the title block (margin + 20) and the bottom margin line.
C8_OnePageWhenImagesAndGapsFitBelowTitle ==
  (InSheetExport /\ exportPc = "saved") =>
    /\ SumHeights(Placed) + (Len(Placed) - 1) * ImageGap * cw
          <= PageBottom - PageTop(1) =>
         /\ Len(pdf) = 1
         /\ Len(Placed) = sheetElements
         /\ \A n \in DOMAIN Placed : Placed[n].element = n
    /\ Len(pdf) >= 2 => PageEnd(1) + pdf[2][1].h > PageBottom

\* Three sheets saved on one page, in order, below the title block.
C8_Witness ==
  /\ InSheetExport
  /\ exportPc = "saved"
  /\ sheetElements = 3
  /\ Len(pdf) = 1
  /\ Len(pdf[1]) = 3
  /\ pdf[1][1].y = PageTop(1)

InRollExport == exportPc = "saved" /\ exportMode = "roll"

CeilDiv(a, b) == (a + b - 1) \div b

\* C9: a roll export has ceil(imageHeight / pageContentHeight) pages, with
\* pageContentHeight the page height minus the two margins.
C9_RollPageCountIsCeiling ==
  InRollExport =>
    Len(pdf) = CeilDiv(pdf[1][1].h, (pdfHeight - margin * 2) * cw)

\* C10: the roll image on page n (0 for the first) is drawn at the vertical
\* offset -(n * pageContentHeight).
C10_RollOffsetOnEveryPage ==
  InRollExport =>
    \A p \in DOMAIN pdf :
      /\ Len(pdf[p]) = 1
      /\ pdf[p][1].y = 0 - (p - 1) * (pdfHeight - margin * 2) * cw

\* The rows of the roll image that page p shows: the image drawn at y is
\* clipped to the page, so row v is visible when 0 <= y + v <= pdfHeight.
SegmentTop(p) == Max(0, 0 - pdf[p][1].y)
SegmentEnd(p) == Min(pdf[p][1].h, pdfHeight * cw - pdf[p][1].y)

\* C11: the pages of a roll export show one image, and their visible
\* segments partition it: the first starts at row 0, each segment ends where
\* the next begins, and the last ends at the image height.
C11_RollSegmentsPartitionImage ==
  InRollExport =>
    /\ \A p \in DOMAIN pdf : Len(pdf[p]) = 1 /\ pdf[p][1] = [pdf[1][1] EXCEPT !.y = pdf[p][1].y]
    /\ SegmentTop(1) = 0
    /\ \A p \in 1 .. Len(pdf) - 1 : SegmentEnd(p) = SegmentTop(p + 1)
    /\ SegmentEnd(Len(pdf)) = pdf[1][1].h

(***************************************************************************)
(* Properties of the whole-report export (ReportSpec)                      *)
(***************************************************************************)
ReportFinished(c) == c.pc \in {"saved", "failed"}

\* C12: a call records the container's height and overflow style as they
\* are when it starts, and the step in which the call finishes, by saving
\* or through the catch block, leaves the container with exactly them.
C12_StylesRestoredWhenCallFinishes ==
  [][\A k \in ReportCallIds :
       /\ (reportCalls[k].pc = "idle" /\ reportCalls'[k].pc # "idle") =>
            /\ reportCalls'[k].originalHeight = styleHeight
            /\ reportCalls'[k].originalOverflow = styleOverflow
       /\ (~ReportFinished(reportCalls[k]) /\ ReportFinished(reportCalls'[k])) =>
            /\ reportCalls[k].pc = "capture"
            /\ styleHeight' = reportCalls[k].originalHeight
            /\ styleOverflow' = reportCalls[k].originalOverflow
       /\ ReportFinished(reportCalls[k]) => reportCalls'[k] = reportCalls[k]]_vars

\* A call whose capture was rejected has finished, no other call was
\* started, and the container has the unset styles it had before the call.
C12_Witness ==
  /\ reportCalls[1].pc = "failed"
  /\ reportCalls[1].thrownBy = "html2canvas"
  /\ reportCalls[2].pc = "idle"
  /\ reportCalls[1].originalHeight = "" /\ styleHeight = ""
  /\ reportCalls[1].originalOverflow = "" /\ styleOverflow = ""

(***************************************************************************)
(* Properties of both exports (EitherExportSpec)                           *)
(***************************************************************************)
\* C13: a call saves at most once, and only as its last step: a call that
\* is suspended or was ended by a failed capture has saved nothing, whatever
\* it had placed; a call that saved has placed the image of every capture.
C13_SavedOnlyAfterEveryCapture ==
  /\ saved \in {0, 1}
  /\ saved = 1 <=> exportPc = "saved"
  /\ exportPc = "saved" =>
       /\ pdf # <<>> /\ Placed # <<>>
       /\ exportMode = "sheet" =>
            /\ Len(Placed) = sheetElements
            /\ \A n \in DOMAIN Placed : Placed[n].element = n
  /\ \A k \in ReportCallIds :
       /\ reportCalls[k].saved \in {0, 1}
       /\ reportCalls[k].saved = 1 <=> reportCalls[k].pc = "saved"
       /\ reportCalls[k].pc = "saved" =>
            /\ reportCalls[k].pdf # <<>>
            /\ \A p \in DOMAIN reportCalls[k].pdf : Len(reportCalls[k].pdf[p]) = 1

\* A sheet export placed the image of its first capture, its next capture
\* was rejected, and nothing was saved.
C13_Witness ==
  /\ exportPc = "failed"
  /\ exportMode = "sheet"
  /\ Len(Placed) >= 1
  /\ Len(Placed) < sheetElements
  /\ saved = 0

\* C14: no step of an export call, of either version, changes the displayed
\* result or an entry of the registry: both are after the call, saved,
\* failed or returned, what they were before it.
C14_ExportLeavesResultAndRegistry ==
  [][result' = result /\ pieceColors' = pieceColors]_vars

\* Two overlapping calls have finished, one saved and one failed, while a
\* result with registry entries is displayed.
C14_Witness ==
  /\ reportCalls[1].pc = "saved"
  /\ reportCalls[2].pc = "failed"
  /\ result # 0
  /\ DOMAIN pieceColors # {}
  /\ \A b \in DOMAIN pieceColors : pieceColors[b] # Gray

(***************************************************************************)
(* Properties of the request life cycle and the display (ViewSpec)         *)
(***************************************************************************)
DisplayStates ==
  { d \in {"loading", "error", "empty", "populated"} :
      \/ d = "loading" /\ LoadingShown
      \/ d = "error" /\ ErrorShown
      \/ d = "empty" /\ PlaceholderShown
      \/ d = "populated" /\ SummaryShown }

\* C15: exactly one of loading, error, empty and populated is shown; loading
\* is shown exactly while a request is in flight, and the placeholder
\* exactly when there is no request, no error and no result.
C15_ExactlyOneDisplayState ==
  /\ Cardinality(DisplayStates) = 1
  /\ LoadingShown <=> fetching # {}
  /\ LoadingShown => ~ErrorShown /\ ~SummaryShown /\ SheetsShown = 0 /\ canvases = <<>>
  /\ ~(ErrorShown /\ SummaryShown)
  /\ PlaceholderShown <=> (fetching = {} /\ error = "" /\ result = 0)

\* Loading is shown, alone, for the third request of a session in which a
\* result was displayed before.
C15_Witness ==
  /\ DisplayStates = {"loading"}
  /\ requests = 3
  /\ DOMAIN pieceColors # {}

\* The state a failed request must end in.
TerminalError ==
  /\ ~isLoading
  /\ error # ""
  /\ result = 0
  /\ DisplayStates = {"error"}
  /\ SheetsShown = 0 /\ canvases = <<>>
  /\ ~ExportOffered

\* C16: a request that ends without a result ends in the terminal error
\* state, and whenever an error is set the view is in that state; it is left
\* only by a new submission.
C16_FailedRequestEndsInErrorState ==
  [][/\ (fetching' # fetching /\ fetching' \subseteq fetching /\ result' = 0) => TerminalError'
     /\ error' # "" => TerminalError'
     /\ (TerminalError /\ ~TerminalError') => (requests' = requests + 1 /\ isLoading')]_vars

\* A request failed after an earlier one had displayed a result: only the
\* error is shown, and the registry still holds the earlier colours.
C16_Witness ==
  /\ TerminalError
  /\ error = ErrorMessage
  /\ fetching = {}
  /\ requests >= 2
  /\ DOMAIN pieceColors # {}

\* C17: at most one request is in flight, and it is the latest one; while
\* it is in flight no result is displayed; a displayed result is the body of
\* the latest request, whole: the mounted sheets are its sheets, one canvas
\* per sheet with that sheet's pieces, and nothing of an earlier result.
C17_ResultIsLatestResponseWhole ==
  /\ Cardinality(fetching) <= 1
  /\ fetching \subseteq {requests}
  /\ fetching # {} => result = 0 /\ shownFrom = 0
  /\ result # 0 =>
       /\ result \in ResultIds
       /\ shownFrom = requests
  /\ Len(canvases) = SheetsShown
  /\ \A i \in DOMAIN canvases :
       LET sh == SheetsOf(result)[i]
           fills == { a \in DOMAIN canvases[i].calls :
                        /\ canvases[i].calls[a].op = "fillRect"
                        /\ canvases[i].calls[a].piece # 0 }
       IN /\ canvases[i].width = sh.sheet_dimensions.width * canvases[i].scale
          /\ canvases[i].height = sh.sheet_dimensions.height * canvases[i].scale
          /\ Cardinality(fills) = Len(sh.placed_pieces)

\* The response of the third request is displayed on its one canvas, after
\* an earlier result had been displayed (a fill has a colour left by it).
C17_Witness ==
  /\ result # 0
  /\ shownFrom = 3
  /\ requests = 3
  /\ fetching = {}
  /\ Len(canvases) = 1
  /\ \E a \in Displayed : FillOf(a[1], a[2]).style # Gray

(***************************************************************************)
(* Order of the captures of a sheet export (ExportSpec)                    *)
(***************************************************************************)
\* The sheet_index of the sheet whose container an image shows: the
\* containers are in the order of result.sheets.
SheetIndexOf(img) == SheetsOf(result)[img.element].sheet_index

\* The captures of the latest call that are in flight.
CapturesInFlight == IF exportPc = "capture" THEN {idx} ELSE {}

SheetCapturesInOrder ==
  InSheetExport =>
    /\ Cardinality(CapturesInFlight) <= 1
    /\ \A e \in CapturesInFlight :
         /\ e = Len(Placed) + 1
         /\ e <= sheetElements
         /\ \A n \in DOMAIN Placed : SheetIndexOf(Placed[n]) < SheetsOf(result)[e].sheet_index
    /\ \A m \in DOMAIN Placed, n \in DOMAIN Placed :
         m < n => SheetIndexOf(Placed[m]) < SheetIndexOf(Placed[n])
    /\ \A p \in DOMAIN pdf : \A k \in 2 .. Len(pdf[p]) :
         pdf[p][k].y >= pdf[p][k - 1].y + pdf[p][k - 1].h

\* C18: in a sheet export at most one capture is in flight, that of the
\* first sheet not placed yet; a step places at most one image, after all
\* earlier ones; by page and then by vertical position the images are in
\* ascending sheet_index order.
C18_CapturesOneAtATimeInSheetOrder ==
  [][/\ SheetCapturesInOrder'
     /\ InSheetExport' =>
          \/ Placed' = Placed
          \/ Placed' = <<>>
          \/ /\ Len(Placed') = Len(Placed) + 1
             /\ SubSeq(Placed', 1, Len(Placed)) = Placed
             /\ CapturesInFlight = {Len(Placed) + 1}]_vars

\* The capture of the third sheet is in flight; the first two images are
\* placed, in order, on two pages.
C18_Witness ==
  /\ InSheetExport
  /\ CapturesInFlight = {3}
  /\ Len(pdf) = 2
  /\ Len(Placed) = 2
  /\ SheetIndexOf(Placed[1]) = 1 /\ SheetIndexOf(Placed[2]) = 2

(***************************************************************************)
(* Properties of the metrics grid (ViewSpec)                               *)
(***************************************************************************)
CardsTitled(t) == { c \in Range(SummaryCards) : c.title = t }

\* C19: for a displayed roll result the consumed-length card shows the
\* first sheet's metrics.consumed_length_mm when present and its
\* sheet_dimensions.height otherwise, as a whole number followed by " mm";
\* without the metric and with height 1500 it shows "1500 mm".
C19_ConsumedLengthPrefersSheetMetric ==
  (result # 0 /\ Results[result].global_metrics.material_type = "roll"
     /\ Len(SheetsOf(result)) > 0) =>
    LET sh == SheetsOf(result)[1]
        present == "consumed_length_mm10" \in DOMAIN sh.metrics
        expected10 == IF present THEN sh.metrics.consumed_length_mm10
                      ELSE 10 * sh.sheet_dimensions.height
    IN /\ Cardinality(CardsTitled("Largo Consumido")) = 1
       /\ \A c \in CardsTitled("Largo Consumido") :
            /\ c.value = toFixed0(expected10) \o <<" mm">>
            /\ (~present /\ sh.sheet_dimensions.height = 1500) =>
                 c.value = <<"1500", " mm">>

\* C20: whenever the summary is displayed it holds exactly one placed/total
\* card, "<placed> / <total>", flagged (class danger) if and only if
\* total_placed_pieces < total_pieces and marked success otherwise.
C20_PlacedCountFlaggedIffBelowTotal ==
  /\ SummaryShown <=> SummaryCards # <<>>
  /\ SummaryShown =>
       LET m == Results[result].global_metrics
       IN /\ Cardinality(CardsTitled("Piezas Colocadas")) = 1
          /\ \A c \in CardsTitled("Piezas Colocadas") :
               /\ c.value = <<ToString(m.total_placed_pieces), " / ",
                              ToString(m.total_pieces)>>
               /\ c.className \in {"danger", "success"}
               /\ c.className = "danger" <=> m.total_placed_pieces < m.total_pieces

\* A result with 3 of 5 pieces placed is displayed and its card is flagged.
C20_Witness ==
  /\ SummaryShown
  /\ \E c \in CardsTitled("Piezas Colocadas") :
       /\ c.value = <<"3", " / ", "5">>
       /\ c.className = "danger"

HasMetric(f) == f \in DOMAIN Results[result].global_metrics

\* C21: the area, waste and time cards are each in the grid exactly when
\* their own field is in global_metrics, whatever the other two; metrics
\* {sheet, 8 placed, 10 total} give a flagged "8 / 10" and none of the three.
C21_OptionalMetricsShownIffPresent ==
  SummaryShown =>
    /\ Cardinality(CardsTitled("Material Usado")) =
         (IF HasMetric("total_material_area_sqm") THEN 1 ELSE 0)
    /\ Cardinality(CardsTitled("Desperdicio")) =
         (IF HasMetric("waste_percentage") THEN 1 ELSE 0)
    /\ Cardinality(CardsTitled("Tiempo de Corte")) =
         (IF HasMetric("estimated_time_seconds10") THEN 1 ELSE 0)
    /\ \A c \in CardsTitled("Material Usado") :
         c.value = <<ToString(Results[result].global_metrics.total_material_area_sqm), " m2">>
    /\ \A c \in CardsTitled("Desperdicio") :
         c.value = <<ToString(Results[result].global_metrics.waste_percentage), "%">>
    /\ (/\ Results[result].global_metrics.material_type = "sheet"
        /\ Results[result].global_metrics.total_placed_pieces = 8
        /\ Results[result].global_metrics.total_pieces = 10
        /\ DOMAIN Results[result].global_metrics =
             {"material_type", "total_sheets_used", "total_placed_pieces", "total_pieces"})
       => /\ \E c \in Range(SummaryCards) :
               c.value = <<"8", " / ", "10">> /\ c.className = "danger"
          /\ \A c \in Range(SummaryCards) :
               c.title \in {"Laminas Usadas", "Piezas Colocadas"}

\* The result with 8 of 10 pieces placed and no optional metric is
\* displayed: a flagged "8 / 10" and no area, waste or time card.
C21_Witness ==
  /\ SummaryShown
  /\ Results[result].global_metrics.total_placed_pieces = 8
  /\ ~HasMetric("waste_percentage")
  /\ Len(SummaryCards) = 2
  /\ SummaryCards[2].value = <<"8", " / ", "10">>
  /\ SummaryCards[2].className = "danger"

\* Reading a formatted time back.
Numerals == 0 .. 99
IsNumeral(tok) == \E n \in Numerals : ToString(n) = tok
ParseNat(tok) == CHOOSE n \in Numerals : ToString(n) = tok
TimeUnits == <<"h", "m", "s">>
UnitSeconds(u) == CASE u = "h" -> 3600 [] u = "m" -> 60 [] u = "s" -> 1
\* The component of s seconds that unit u counts.
Part(s, u) ==
  CASE u = "h" -> s \div 3600
    [] u = "m" -> (s % 3600) \div 60
    [] u = "s" -> s % 60

\* text is groups <<numeral, unit>> separated by single spaces.
Grouped(text) ==
  /\ Len(text) % 3 = 2
  /\ \A i \in DOMAIN text :
       CASE i % 3 = 1 -> IsNumeral(text[i])
         [] i % 3 = 2 -> \E j \in DOMAIN TimeUnits : text[i] = TimeUnits[j]
         [] i % 3 = 0 -> text[i] = " "

UnitPositions(text) == { i \in DOMAIN text : i % 3 = 2 }
UnitRank(u) == CHOOSE j \in DOMAIN TimeUnits : TimeUnits[j] = u

RECURSIVE ReadBackFrom(_, _)
ReadBackFrom(text, i) ==
  IF i > Len(text) THEN 0
  ELSE ParseNat(text[i - 1]) * UnitSeconds(text[i]) + ReadBackFrom(text, i + 3)
ReadBack(text) == ReadBackFrom(text, 2)

\* text is the compact form of s whole seconds: exactly the non-zero
\* components of s, in the order h, m, s.
CompactFormOf(text, s) ==
  /\ Grouped(text)
  /\ \A i \in UnitPositions(text), j \in UnitPositions(text) :
       i < j => UnitRank(text[i]) < UnitRank(text[j])
  /\ \A k \in DOMAIN TimeUnits :
       LET u == TimeUnits[k]
       IN IF Part(s, u) > 0
            THEN \E i \in UnitPositions(text) :
                   text[i] = u /\ ParseNat(text[i - 1]) = Part(s, u)
            ELSE \A i \in UnitPositions(text) : text[i] # u

\* C22: formatTime returns "0s" for 0, for every negative and for a missing
\* argument; for every positive whole number of seconds it returns the
\* non-zero components among hours, minutes and seconds in that order, which
\* read back to the argument; 3661 gives "1h 1m 1s".
C22_FormatTimeCompactAndReadsBack ==
  timeText # <<>> =>
    /\ (~timeArg.defined \/ timeArg.x10 <= 0) => timeText = <<"0", "s">>
    /\ (timeArg.defined /\ timeArg.x10 > 0 /\ timeArg.x10 % 10 = 0) =>
         /\ CompactFormOf(timeText, timeArg.x10 \div 10)
         /\ ReadBack(timeText) = timeArg.x10 \div 10
    /\ timeArg = Num(36610) =>
         timeText = <<"1", "h", " ", "1", "m", " ", "1", "s">>

\* formatTime(3660) has returned: an hour and a minute, no seconds part.
C22_Witness ==
  /\ timeArg = Num(36600)
  /\ timeText = <<"1", "h", " ", "1", "m">>

\* text ends with the sequence tail.
EndsWith(text, tail) ==
  /\ Len(text) >= Len(tail)
  /\ SubSeq(text, Len(text) - Len(tail) + 1, Len(text)) = tail

\* The page shows the count of the ids of list `field` on the card titled
\* `title` and their literal list in a message of its own.
CountAndListShown(field, title) ==
  LET ids == IdsOf(result, field)
  IN /\ \E c \in CardsTitled(title) : c.value = <<ToString(Len(ids))>>
     /\ \E m \in DOMAIN SummaryMessages : EndsWith(SummaryMessages[m], join(ids))

\* C23: whenever the displayed result has a non-empty impossible_to_place_ids
\* its count and its literal id list are on the page, and whenever it has a
\* non-empty unplaced_piece_ids its count and its literal id list are on the
\* page; the two lists are never merged into one.
C23_BothIdListsShownSeparately ==
  SummaryShown =>
    /\ IdsOf(result, "impossible_to_place_ids") # <<>> =>
         CountAndListShown("impossible_to_place_ids", "Piezas Imposibles")
    /\ IdsOf(result, "unplaced_piece_ids") # <<>> =>
         CountAndListShown("unplaced_piece_ids", "Piezas Sin Espacio")
    /\ (/\ IdsOf(result, "impossible_to_place_ids") # <<>>
         /\ IdsOf(result, "unplaced_piece_ids") # <<>>) =>
         \A m \in DOMAIN SummaryMessages :
           ~EndsWith(SummaryMessages[m],
                     join(IdsOf(result, "impossible_to_place_ids")
                            \o IdsOf(result, "unplaced_piece_ids")))

\* The sheets of the displayed result with a width or height <= 0.
DegenerateSheets ==
  { i \in DOMAIN canvases :
      LET d == SheetsOf(result)[i].sheet_dimensions
      IN d.width <= 0 \/ d.height <= 0 }

\* C24: for a displayed result with optional metric fields absent, with an
\* empty or absent sheets list, with absent id lists or with a sheet of zero
\* or negative dimensions, only the affected element is skipped: the summary
\* with the first card and the placed card is shown; without sheets no sheet
\* and no export button is shown; without id lists no id card and no id
\* message is shown; the draw of a degenerate sheet is skipped and every
\* other sheet is drawn.
C24_PartialResultsSkipOnlyTheAffected ==
  result # 0 =>
    /\ SummaryShown
    /\ Len(SummaryCards) >= 2
    /\ CardsTitled("Piezas Colocadas") # {}
    /\ Len(canvases) = Len(SheetsOf(result))
    /\ SheetsOf(result) = <<>> => SheetsShown = 0 /\ ~ExportOffered
    /\ (DOMAIN Results[result]) \cap {"impossible_to_place_ids", "unplaced_piece_ids"} = {} =>
         /\ SummaryMessages = <<>>
         /\ CardsTitled("Piezas Imposibles") = {}
         /\ CardsTitled("Piezas Sin Espacio") = {}
    /\ \A i \in DOMAIN canvases :
         (canvases[i].calls = <<>>) <=> (i \in DegenerateSheets)

\* The colours generatePastelColor can return.
PastelColors == { generatePastelColor(h) : h \in Hues }

\* C25: when the sheets of a result are drawn, the fill of every placed
\* piece is the colour the registry holds for its base id at that moment,
\* and the fixed gray when the registry holds none; it is never undefined.
C25_FillIsRegistryColourOrGray ==
  [][(result = 0 /\ result' # 0) =>
       \A i \in DOMAIN canvases' :
         \A n \in DOMAIN canvases'[i].calls :
           LET c == canvases'[i].calls[n]
           IN (c.op = "fillRect" /\ c.piece > 0) =>
                /\ c.style \in PastelColors \cup {Gray}
                /\ c.baseId \in DOMAIN pieceColors => c.style = pieceColors[c.baseId]
                /\ c.baseId \notin DOMAIN pieceColors => c.style = Gray]_vars

\* A result drawn while the registry held the colours of an earlier result:
\* one piece is filled with a registry colour, another with the gray.
C25_Witness ==
  \E a \in Displayed, b \in Displayed :
    /\ FillOf(a[1], a[2]).style = Gray
    /\ FillOf(b[1], b[2]).style \in PastelColors

\* C26: drawing a sheet again with the same sheet and registry starts from
\* a cleared surface and leaves exactly the calls of one draw: nothing of an
\* earlier draw remains, the density scale is that of one draw, and a
\* surface already drawn with this registry is left as it was.
C26_RedrawIsIdempotent ==
  [][\A i \in DOMAIN canvases :
       canvases'[i].draws > canvases[i].draws =>
         LET once == DrawSheet(SheetsOf(result)[i], pieceColors, dpr)
         IN /\ canvases'[i].calls = once.calls
            /\ canvases'[i].scale = once.scale
            /\ canvases'[i].width = once.width
            /\ canvases'[i].height = once.height
            /\ canvases[i].calls = once.calls => canvases'[i].calls = canvases[i].calls]_vars

\* A sheet with labelled pieces drawn three times at device pixel ratio 2,
\* the last two times with the same registry.
C26_Witness ==
  \E i \in DOMAIN canvases :
    /\ canvases[i].draws = 3
    /\ canvases[i].scale = 2
    /\ \E n \in DOMAIN canvases[i].calls : canvases[i].calls[n].op = "fillText"
    /\ \E n \in DOMAIN canvases[i].calls :
         /\ canvases[i].calls[n].op = "fillRect"
         /\ canvases[i].calls[n].style \in PastelColors

\* C27: once every export call of the whole-report variant that was started
\* has finished, overlapping calls included, the container's height and
\* overflow style are what they were before the first call started.
C27_StylesRestoredAfterOverlappingExports ==
  (/\ reportCalls[1].pc # "idle"
   /\ \A k \in ReportCallIds :
        reportCalls[k].pc = "idle" \/ ReportFinished(reportCalls[k])) =>
    /\ styleHeight = reportCalls[1].originalHeight
    /\ styleOverflow = reportCalls[1].originalOverflow

\* The height between the top and the bottom margin of a page.
PageContentHeight == (pdfHeight - margin * 2) * cw

\* C28: in a sheet export every image no taller than the page content
\* height lies entirely between the top and the bottom margin of its page,
\* and no image of page 1 starts above the bottom of the title block.
C28_SheetImagesWithinMargins ==
  InSheetExport =>
    \A p \in DOMAIN pdf : \A k \in DOMAIN pdf[p] :
      LET img == pdf[p][k]
      IN /\ img.h <= PageContentHeight =>
              /\ img.y >= margin * cw
              /\ img.y + img.h <= (pdfHeight - margin) * cw
         /\ p = 1 => img.y >= (margin + TitleBlock) * cw

\* A saved export whose first page holds an image below the title block and
\* whose second page holds an image exactly as tall as the content height,
\* from the top margin to the bottom margin.
C28_Witness ==
  /\ InSheetExport
  /\ exportPc = "saved"
  /\ Len(pdf) >= 2
  /\ pdf[1] # <<>>
  /\ \E k \in DOMAIN pdf[2] :
       /\ pdf[2][k].h = PageContentHeight
       /\ pdf[2][k].y = margin * cw
       /\ pdf[2][k].y + pdf[2][k].h = (pdfHeight - margin) * cw

\* C29: from every capture size, each iteration of a page-slicing loop
\* lowers the remaining height by one positive page height, the loop ends,
\* and the document, the one the export action builds, is then saved.
C29_SlicingLoopsTerminateAndSave ==
  /\ [][sliceDoc' # sliceDoc =>
          /\ pdfHeight * sliceC > 0
          /\ heightLeft' = heightLeft - pdfHeight * sliceC
          /\ Len(sliceDoc') = Len(sliceDoc) + 1]_vars
  /\ [](slicePc = "saved" =>
          /\ heightLeft <= 0
          /\ sliceDoc \in { RollDocument(<< <<>> >>, (margin + TitleBlock) * sliceC,
                                          sliceH, sliceC),
                             ReportDocument(sliceH, sliceC) })
  /\ <>(slicePc = "saved")

\* The roll image of 5540 mm has been sliced into 19 pages and saved.
C29_Witness ==
  /\ slicePc = "saved"
  /\ Len(sliceDoc) = 19
  /\ sliceH = imgHeightN(11080)
  /\ sliceC = 380

\* The numeric value of a field of the form, in tenths.
FieldValue(v) == IF v.kind = "number" THEN v.x10 ELSE NumberOfText(v.text)

\* A row of the form with width > 0, height > 0 and quantity > 0.
PositiveRow(p) ==
  FieldValue(p.width) > 0 /\ FieldValue(p.height) > 0 /\ FieldValue(p.quantity) > 0

\* The indexes of the positive rows of the form, ascending.
RECURSIVE PositiveRowsFrom(_)
PositiveRowsFrom(i) ==
  IF i > Len(pieces) THEN <<>>
  ELSE (IF PositiveRow(pieces[i]) THEN <<i>> ELSE <<>>) \o PositiveRowsFrom(i + 1)

\* C30: whatever adds, removes, edits and imports came before, a submit
\* calls onSubmit only if some row has width, height and quantity > 0; the
\* request then lists exactly those rows, in form order, with their id as
\* text and width and height as the numbers in the fields (the quantity as
\* a whole number); with no such row nothing is sent and the alert is
\* raised; for a roll the sheet is the roll width with height -1.
C30_RequestHoldsExactlyTheValidPieces ==
  LET rows == PositiveRowsFrom(1)
  IN /\ Len(sent.calls) <= 1
     /\ sent.alert => sent.calls = <<>> /\ rows = <<>>
     /\ sent.calls # <<>> =>
          LET req == sent.calls[1]
          IN /\ rows # <<>>
             /\ Len(req.pieces) = Len(rows)
             /\ \A k \in DOMAIN rows :
                  LET p == pieces[rows[k]]
                      q == req.pieces[k]
                  IN /\ q.id = p.id.text
                     /\ q.width = FieldValue(p.width) /\ q.width > 0
                     /\ q.height = FieldValue(p.height) /\ q.height > 0
                     /\ q.quantity % 10 = 0
                     /\ q.quantity <= FieldValue(p.quantity)
                     /\ FieldValue(p.quantity) - q.quantity < 10
             /\ req.material_type = materialType
             /\ materialType = "roll" =>
                  req.sheet = [width |-> FieldValue(rollWidth), height |-> 0 - 10]
             /\ materialType = "sheet" =>
                  req.sheet = [width |-> 24400, height |-> 12200]

\* A roll request sent from a form of two rows, only the second valid, its
\* width typed as text, after the roll width was typed too.
C30_Witness ==
  /\ sent.calls # <<>>
  /\ materialType = "roll"
  /\ rollWidth = Typed("1000")
  /\ Len(pieces) = 2
  /\ ~PositiveRow(pieces[1])
  /\ pieces[2].width = Typed("600")
  /\ Len(sent.calls[1].pieces) = 1
  /\ sent.calls[1].pieces[1].width = 6000

====
